---- MODULE Spec2Model ----
(***************************************************************************)
(* Model of src/main.py (YouTube Tools API): the URL -> video id resolver  *)
(* and the four request handlers of YouTubeTools with their calls to the   *)
(* two external providers (yt-dlp, youtube_transcript_api).                *)
(*                                                                         *)
(* Strings are sequences of tokens.  A token is either a delimiter         *)
(* character ("/", "?", "#", "&", "=", ":", "@", " ", "-") or an atomic    *)
(* word without delimiters (a host name, "watch", "embed", an identifier   *)
(* character, a caption word, a digit).                                    *)
(***************************************************************************)
EXTENDS Integers, Sequences, FiniteSets, TLC

VARIABLES pc, apiInstalled, op, url, urlParts, languages, browser,
          calls, delivered, acc, video_id, consulted, failures, response

vars == <<pc, apiInstalled, op, url, urlParts, languages, browser,
          calls, delivered, acc, video_id, consulted, failures, response>>

(***************************************************************************)
(* Bounds                                                                  *)
(***************************************************************************)
MaxIdLen == 2
MaxEvents == 2

(***************************************************************************)
(* Optional[...] values                                                    *)
(***************************************************************************)
None == [isNone |-> TRUE, v |-> <<>>]
Some(x) == [isNone |-> FALSE, v |-> x]
\* Python truthiness of an Optional[str] / Optional[list]
Truthy(o) == (~o.isNone) /\ o.v # <<>>

(***************************************************************************)
(* Sequence helpers (str.find, str.split, str.startswith, str.strip, join) *)
(***************************************************************************)
\* least index >= from whose token is in T, or Len(s)+1
RECURSIVE FindAny(_, _, _)
FindAny(s, T, from) ==
    IF from > Len(s) THEN Len(s) + 1
    ELSE IF s[from] \in T THEN from
    ELSE FindAny(s, T, from + 1)

\* greatest index whose token is t, or 0
RECURSIVE RFind(_, _, _)
RFind(s, t, i) ==
    IF i = 0 THEN 0
    ELSE IF s[i] = t THEN i
    ELSE RFind(s, t, i - 1)

StartsWith(s, p) == Len(s) >= Len(p) /\ SubSeq(s, 1, Len(p)) = p

\* s.split(sep): the pieces between occurrences of sep (always >= 1 piece)
RECURSIVE Split(_, _)
Split(s, sep) ==
    LET i == FindAny(s, {sep}, 1)
    IN IF i > Len(s) THEN <<s>>
       ELSE <<SubSeq(s, 1, i - 1)>> \o Split(SubSeq(s, i + 1, Len(s)), sep)

RECURSIVE LStrip(_)
LStrip(s) == IF s # <<>> /\ s[1] = " " THEN LStrip(Tail(s)) ELSE s

RECURSIVE RStrip(_)
RStrip(s) == IF s # <<>> /\ s[Len(s)] = " " THEN RStrip(SubSeq(s, 1, Len(s) - 1)) ELSE s

Strip(s) == RStrip(LStrip(s))

\* sep.join(parts)
RECURSIVE Join(_, _)
Join(parts, sep) ==
    IF parts = <<>> THEN <<>>
    ELSE IF Len(parts) = 1 THEN parts[1]
    ELSE parts[1] \o sep \o Join(Tail(parts), sep)

(***************************************************************************)
(* urllib.parse.urlparse / parse_qs, as far as the resolver uses them      *)
(***************************************************************************)
Delims == {"/", "?", "#", "&", "=", ":", "@", " ", "-"}
DigitWords == {"443", "5"}

\* str.lower() on a token
Lower(t) == IF t = "YOUTU.BE" THEN "youtu.be" ELSE t

\* a scheme is a non-empty run of scheme characters starting with a letter
IsScheme(s) ==
    /\ s # <<>>
    /\ \A i \in 1..Len(s) : s[i] \notin (Delims \ {"-"})
    /\ s[1] \notin DigitWords
    /\ s[1] # "-"

urlparse(u) ==
    LET colon == FindAny(u, {":"}, 1)
        hasScheme == colon <= Len(u) /\ IsScheme(SubSeq(u, 1, colon - 1))
        scheme == IF hasScheme THEN SubSeq(u, 1, colon - 1) ELSE <<>>
        r1 == IF hasScheme THEN SubSeq(u, colon + 1, Len(u)) ELSE u
        hasNetloc == StartsWith(r1, <<"/", "/">>)
        delim == FindAny(r1, {"/", "?", "#"}, 3)
        netloc == IF hasNetloc THEN SubSeq(r1, 3, delim - 1) ELSE <<>>
        r2 == IF hasNetloc THEN SubSeq(r1, delim, Len(r1)) ELSE r1
        hash == FindAny(r2, {"#"}, 1)
        fragment == SubSeq(r2, hash + 1, Len(r2))
        r3 == SubSeq(r2, 1, hash - 1)
        qm == FindAny(r3, {"?"}, 1)
        query == SubSeq(r3, qm + 1, Len(r3))
        path == SubSeq(r3, 1, qm - 1)
        at == RFind(netloc, "@", Len(netloc))
        hostinfo == SubSeq(netloc, at + 1, Len(netloc))
        hcolon == FindAny(hostinfo, {":"}, 1)
        host == SubSeq(hostinfo, 1, hcolon - 1)
    IN [scheme |-> scheme, netloc |-> netloc, fragment |-> fragment,
        query |-> query, path |-> path,
        hostname |-> IF host = <<>> THEN None
                     ELSE Some([i \in 1..Len(host) |-> Lower(host[i])])]

\* the values of parameter name in the query, in order; blank values dropped
RECURSIVE QsValues(_, _)
QsValues(pairs, name) ==
    IF pairs = <<>> THEN <<>>
    ELSE LET p == pairs[1]
             eq == FindAny(p, {"="}, 1)
             k == SubSeq(p, 1, eq - 1)
             val == SubSeq(p, eq + 1, Len(p))
             rest == QsValues(Tail(pairs), name)
         IN IF eq <= Len(p) /\ val # <<>> /\ k = name THEN <<val>> \o rest ELSE rest

\* variant: the last value of the parameter instead of the first
parse_qs_last(query, name) ==
    LET vals == QsValues(Split(query, "&"), name)
    IN IF vals = <<>> THEN None ELSE Some(vals[Len(vals)])

\* parse_qs(query).get(name, [None])[0]
parse_qs_first(query, name) ==
    LET vals == QsValues(Split(query, "&"), name)
    IN IF vals = <<>> THEN None ELSE Some(vals[1])

(***************************************************************************)
(* YouTubeTools.get_youtube_video_id                                       *)
(***************************************************************************)
get_youtube_video_id(u) ==
    LET parsed_url == urlparse(u)
        hostname == parsed_url.hostname
        path == parsed_url.path
    IN IF hostname = Some(<<"youtu.be">>)
         THEN Some(SubSeq(path, 2, Len(path)))
       ELSE IF hostname \in {Some(<<"www.youtube.com">>), Some(<<"youtube.com">>)}
         THEN IF path = <<"/", "watch">>
                THEN parse_qs_first(parsed_url.query, <<"v">>)
              ELSE IF StartsWith(path, <<"/", "embed", "/">>)
                THEN Some(Split(path, "/")[3])
              ELSE IF StartsWith(path, <<"/", "v", "/">>)
                THEN Some(Split(path, "/")[3])
              ELSE None
       ELSE None

(***************************************************************************)
(* URLs: built from parts and flattened to a string, which the resolver    *)
(* parses.                                                                 *)
(***************************************************************************)
IdChars == {"a", "b"}
RECURSIVE SeqsUpTo(_, _)
SeqsUpTo(S, n) ==
    IF n = 0 THEN {<<>>}
    ELSE LET prev == SeqsUpTo(S, n - 1)
         IN prev \cup {Append(s, x) : s \in {t \in prev : Len(t) = n - 1}, x \in S}

Ids == SeqsUpTo(IdChars, MaxIdLen) \ {<<>>}

Schemes == {<<"https", ":">>, <<>>}
Hosts == {"youtu.be", "youtube.com", "www.youtube.com", "m.youtube.com",
          "example.com", "YOUTU.BE"}
AuthForms == {"none", "host", "port", "user"}
PathKinds == {"empty", "root", "id", "id_slash", "watch", "watch_slash", "watch_id",
              "embed", "embed_empty", "embed_id", "embed_id_rest", "v_id", "shorts_id"}
QueryKinds == {"none", "v", "v_t", "v_v", "t_v", "t", "v_blank"}
FragKinds == {"none", "frag"}

Authority(form, h) ==
    CASE form = "none" -> <<>>
      [] form = "host" -> <<"/", "/", h>>
      [] form = "port" -> <<"/", "/", h, ":", "443">>
      [] form = "user" -> <<"/", "/", "user", "@", h>>

Path(kind, id) ==
    CASE kind = "empty" -> <<>>
      [] kind = "root" -> <<"/">>
      [] kind = "id" -> <<"/">> \o id
      [] kind = "id_slash" -> <<"/">> \o id \o <<"/">>
      [] kind = "watch" -> <<"/", "watch">>
      [] kind = "watch_slash" -> <<"/", "watch", "/">>
      [] kind = "watch_id" -> <<"/", "watch">> \o id
      [] kind = "embed" -> <<"/", "embed">>
      [] kind = "embed_empty" -> <<"/", "embed", "/">>
      [] kind = "embed_id" -> <<"/", "embed", "/">> \o id
      [] kind = "embed_id_rest" -> <<"/", "embed", "/">> \o id \o <<"/", "b">>
      [] kind = "v_id" -> <<"/", "v", "/">> \o id
      [] kind = "shorts_id" -> <<"/", "shorts", "/">> \o id

Query(kind, id) ==
    CASE kind = "none" -> <<>>
      [] kind = "v" -> <<"?", "v", "=">> \o id
      [] kind = "v_t" -> <<"?", "v", "=">> \o id \o <<"&", "t", "=", "5">>
      [] kind = "v_v" -> <<"?", "v", "=">> \o id \o <<"&", "v", "=", "b", "a">>
      [] kind = "t_v" -> <<"?", "t", "=", "5", "&", "v", "=">> \o id
      [] kind = "t" -> <<"?", "t", "=", "5">>
      [] kind = "v_blank" -> <<"?", "v", "=">>

Fragment(kind) == IF kind = "frag" THEN <<"#", "t">> ELSE <<>>

Unparse(p) ==
    p.scheme \o Authority(p.auth, p.host) \o Path(p.path, p.id)
        \o Query(p.query, p.id) \o Fragment(p.frag)

AllParts ==
    [scheme : Schemes, query : QueryKinds, path : PathKinds, host : Hosts, id : Ids,
     auth : AuthForms, frag : FragKinds]

\* the record standing for "no URL" (the empty string)
NoParts == [scheme |-> <<>>, query |-> "none", path |-> "empty", host |-> "youtu.be",
            id |-> <<"a">>, auth |-> "none", frag |-> "none"]

NoResponse == [body |-> <<>>, detail |-> <<>>, status |-> 0]



(***************************************************************************)
(* Provider data                                                           *)
(***************************************************************************)
TransportMsgs == {"timed out", "HTTP Error 429"}
ParseMsgs == {"Expecting value"}

\* json3 events of a yt-dlp subtitle track; a seg is Some(utf8) or None when
\* the seg has no 'utf8' key
Events ==
    { [hasSegs |-> TRUE, hasStart |-> TRUE,
       segs |-> <<Some(<<"hi">>)>>, tStartMs |-> 65000],
      [hasSegs |-> TRUE, hasStart |-> TRUE,
       segs |-> <<Some(<<"bye">>), None, Some(<<"hi">>)>>, tStartMs |-> 723999],
      [hasSegs |-> TRUE, hasStart |-> TRUE,
       segs |-> <<Some(<<" ">>)>>, tStartMs |-> 3000],
      [hasSegs |-> TRUE, hasStart |-> FALSE,
       segs |-> <<Some(<<"hi">>)>>, tStartMs |-> 0] }

\* a subtitle_info of requested_subtitles: without 'data', with data that
\* json.loads rejects, or with parsed json3 events
Tracks ==
    {[kind |-> "nodata", events |-> <<>>, msg |-> ""]}
    \cup {[kind |-> "bad", events |-> <<>>, msg |-> m] : m \in ParseMsgs}
    \cup {[kind |-> "json", events |-> e, msg |-> ""] : e \in SeqsUpTo(Events, MaxEvents)}

\* what ydl.extract_info does: raises, or returns info whose
\* requested_subtitles has at most one track per language asked for
PrimaryOutcomes(subtitleslangs) ==
    {[msg |-> m, raises |-> TRUE, tracks |-> <<>>] : m \in TransportMsgs}
    \cup {[msg |-> "", raises |-> FALSE, tracks |-> t] :
              t \in SeqsUpTo(Tracks, Len(subtitleslangs))}

\* transcript lines of youtube_transcript_api; start is kept in milliseconds
Lines ==
    { [start |-> 65000, text |-> <<"hi">>],
      [start |-> 3999, text |-> <<"bye">>],
      [start |-> 3000, text |-> <<>>],
      [start |-> 7000, text |-> <<" ">>] }

FallbackOutcomes ==
    {[msg |-> m, raises |-> TRUE, captions |-> <<>>] : m \in TransportMsgs}
    \cup {[msg |-> "", raises |-> FALSE, captions |-> c] : c \in SeqsUpTo(Lines, MaxEvents)}

LanguageChoices == {None, Some(<<>>), Some(<<"fr", "en">>)}
BrowserChoices == {None, Some(<<"chrome">>)}

\* the URLs the handlers are exercised with: "", https://youtu.be/ab,
\* https://youtu.be/, https://example.com/watch?v=ab,
\* https://www.youtube.com/watch?v=ab&t=5
RequestParts ==
    { NoParts,
      [scheme |-> <<"https", ":">>, query |-> "none", path |-> "id",
       host |-> "youtu.be", id |-> <<"a", "b">>, auth |-> "host", frag |-> "none"],
      [scheme |-> <<"https", ":">>, query |-> "none", path |-> "root",
       host |-> "youtu.be", id |-> <<"a", "b">>, auth |-> "host", frag |-> "none"],
      [scheme |-> <<"https", ":">>, query |-> "v", path |-> "watch",
       host |-> "example.com", id |-> <<"a", "b">>, auth |-> "host", frag |-> "none"],
      [scheme |-> <<"https", ":">>, query |-> "v_t", path |-> "watch",
       host |-> "www.youtube.com", id |-> <<"a", "b">>, auth |-> "host", frag |-> "none"] }

(***************************************************************************)
(* Pieces of the handlers                                                  *)
(***************************************************************************)
\* variant: the url is never checked
UrlNeverMissing(u) == FALSE

\* `if not url`
UrlMissing(u) == u = <<>>

\* raise HTTPException(status_code=..., detail=...)
HTTPException(status, detail) == [body |-> <<>>, detail |-> detail, status |-> status]
\* str(HTTPException(400, "Invalid YouTube URL"))
InvalidUrlText == "400: Invalid YouTube URL"

NoUrlProvided == HTTPException(400, <<"No URL provided">>)

\* variant: the cause is left out of the detail
UpstreamFailureNoCause(prefix, e) == [body |-> <<>>, detail |-> <<prefix>>, status |-> 500]

\* `except Exception as e: raise HTTPException(500, f"<prefix>{str(e)}")`
UpstreamFailure(prefix, e) == HTTPException(500, <<prefix, e>>)

Ok(body) == [body |-> body, detail |-> <<>>, status |-> 200]

\* variant: no default language
SubtitlesLangsNoDefault(langs) == Some(langs.v)

\* 'subtitleslangs': languages if languages else ['en']
SubtitlesLangs(langs) == IF Truthy(langs) THEN Some(langs.v) ELSE Some(<<"en">>)

\* get_transcript(video_id, languages=languages) / get_transcript(video_id)
CaptionsFallbackLangs(langs) == IF Truthy(langs) THEN Some(langs.v) ELSE None

\* get_transcript(video_id, languages=languages or ["en"])
TimestampsFallbackLangs(langs) == IF Truthy(langs) THEN Some(langs.v) ELSE Some(<<"en">>)

YtDlpCall(fn, target, langs, br) ==
    [browser |-> br, langs |-> langs, fn |-> fn, target |-> target, provider |-> "yt_dlp"]
TranscriptCall(fn, target, langs) ==
    [browser |-> None, langs |-> langs, fn |-> fn, target |-> target,
     provider |-> "transcript_api"]

\* text += seg['utf8'] + " " for every seg with a 'utf8' key
RECURSIVE SegsText(_)
SegsText(segs) ==
    IF segs = <<>> THEN <<>>
    ELSE (IF segs[1].isNone THEN <<>> ELSE segs[1].v \o <<" ">>) \o SegsText(Tail(segs))

\* captions_text contributed by the events of one track (lines 114-118)
RECURSIVE EventsCaptions(_)
EventsCaptions(events) ==
    IF events = <<>> THEN <<>>
    ELSE (IF events[1].hasSegs THEN SegsText(events[1].segs) ELSE <<>>)
         \o EventsCaptions(Tail(events))

\* captions_text contributed by requested_subtitles (lines 109-120)
RECURSIVE TracksCaptions(_)
TracksCaptions(tracks) ==
    IF tracks = <<>> THEN <<>>
    ELSE (IF tracks[1].kind = "json" THEN EventsCaptions(tracks[1].events) ELSE <<>>)
         \o TracksCaptions(Tail(tracks))

DigitTok(d) == <<"0", "1", "2", "3", "4", "5", "6", "7", "8", "9">>[d + 1]

\* str(n) for n >= 0
RECURSIVE Digits(_)
Digits(n) == IF n < 10 THEN <<DigitTok(n)>> ELSE Digits(n \div 10) \o <<DigitTok(n % 10)>>

\* f"{n:02d}"
Pad2(n) == IF n < 10 THEN <<"0">> \o Digits(n) ELSE Digits(n)

\* f"{minutes}:{seconds:02d} - {text}"
FormatTimestamp(minutes, seconds, text) ==
    Digits(minutes) \o <<":">> \o Pad2(seconds) \o <<" ", "-", " ">> \o text

\* lines 178-189: the timestamp line of one json3 event, if any
EventTimestamp(event) ==
    IF event.hasStart /\ event.hasSegs
    THEN LET start_seconds == event.tStartMs \div 1000
             text == SegsText(event.segs)
         IN IF Strip(text) # <<>>
            THEN <<FormatTimestamp(start_seconds \div 60, start_seconds % 60, Strip(text))>>
            ELSE <<>>
    ELSE <<>>

RECURSIVE EventsTimestamps(_)
EventsTimestamps(events) ==
    IF events = <<>> THEN <<>>
    ELSE EventTimestamp(events[1]) \o EventsTimestamps(Tail(events))

\* timestamps contributed by requested_subtitles (lines 172-191)
RECURSIVE TracksTimestamps(_)
TracksTimestamps(tracks) ==
    IF tracks = <<>> THEN <<>>
    ELSE (IF tracks[1].kind = "json" THEN EventsTimestamps(tracks[1].events) ELSE <<>>)
         \o TracksTimestamps(Tail(tracks))

\* the json.loads failures caught and printed at lines 119-120 / 190-191
ParseFailures(tracks) ==
    {[kind |-> "parse", msg |-> tracks[i].msg] : i \in {j \in 1..Len(tracks) : tracks[j].kind = "bad"}}

\* lines 200-203
RECURSIVE FallbackTimestamps(_)
FallbackTimestamps(captions) ==
    IF captions = <<>> THEN <<>>
    ELSE LET start == captions[1].start \div 1000
         IN <<FormatTimestamp(start \div 60, start % 60, captions[1].text)>>
            \o FallbackTimestamps(Tail(captions))

NoCaptionsFound == <<"No captions found for video">>

\* variant: an empty transcript is joined like any other
FallbackCaptionsBodyNoLiteral(captions) ==
    Join([i \in 1..Len(captions) |-> captions[i].text], <<" ">>)

\* lines 137-140
FallbackCaptionsBody(captions) ==
    IF captions # <<>>
    THEN Join([i \in 1..Len(captions) |-> captions[i].text], <<" ">>)
    ELSE NoCaptionsFound

\* variant: the fallback is consulted whatever the primary produced
TimestampsAlwaysFallback(timestamps, api) == api

\* line 194: `if not timestamps and YouTubeTranscriptApi`
TimestampsNeedFallback(timestamps, api) == timestamps = <<>> /\ api

\* lines 122-126: captions_text is falsy and YouTubeTranscriptApi is set
CaptionsNeedFallback(captions_text, api) == captions_text = <<>> /\ api

NothingDelivered == [fallback |-> None, primary |-> None]


MetadataFields == {"title", "channel", "channel_url", "upload_date", "duration",
                   "view_count", "like_count", "thumbnail", "description",
                   "categories", "tags"}

\* info records of extract_info for get_video_data: the fields present
VideoInfos == {[f \in D |-> <<"x">>] : D \in {MetadataFields, {"title"}, {}}}

\* lines 65-77: info.get(field) for each field of the clean structure
CleanData(info) ==
    [f \in MetadataFields |-> IF f \in DOMAIN info THEN Some(info[f]) ELSE None]

SubtitleKeyChoices == {None, Some(<<>>), Some(<<"en">>), Some(<<"fr", "en">>)}
SubtitleInfos == [automatic_captions : SubtitleKeyChoices, subtitles : SubtitleKeyChoices]

\* lines 228-235
AvailableSubs(info) ==
    LET keys == (IF Truthy(info.subtitles) THEN {"manual"} ELSE {})
                \cup (IF Truthy(info.automatic_captions) THEN {"automatic"} ELSE {})
    IN [k \in keys |-> IF k = "manual" THEN info.subtitles.v
                       ELSE info.automatic_captions.v]

(***************************************************************************)
(* The service: one request at a time, from the endpoint to the response   *)
(***************************************************************************)
Init ==
    /\ pc = "idle"
    /\ apiInstalled \in BOOLEAN
    /\ op = "none"
    /\ url = <<>>
    /\ urlParts = NoParts
    /\ languages = None
    /\ browser = None
    /\ calls = <<>>
    /\ delivered = NothingDelivered
    /\ acc = <<>>
    /\ video_id = None
    /\ consulted = FALSE
    /\ failures = {}
    /\ response = NoResponse

\* the entry of a handler: the request is bound, the url is checked and the
\* first provider call is issued
Enter(name, parts, langs, br, call) ==
    /\ pc = "idle"
    /\ op' = name
    /\ urlParts' = parts
    /\ url' = Unparse(parts)
    /\ languages' = langs
    /\ browser' = br
    /\ IF UrlMissing(Unparse(parts))
       THEN /\ response' = NoUrlProvided
            /\ pc' = "done"
            /\ calls' = calls
       ELSE /\ response' = response
            /\ pc' = "primary"
            /\ calls' = Append(calls, call)
    /\ UNCHANGED <<apiInstalled, delivered, acc, video_id, consulted, failures>>

\* POST /video-data -> get_video_data, up to ydl.extract_info
PostVideoData(parts, br) ==
    Enter("video_data", parts, None, br,
          YtDlpCall("extract_info", Unparse(parts), None, br))

\* get_video_data from the return of extract_info
GetVideoData_Extract ==
    /\ pc = "primary" /\ op = "video_data"
    /\ \/ \E m \in TransportMsgs :
            /\ response' = UpstreamFailure("Error getting video data: ", m)
            /\ failures' = failures \cup {[kind |-> "transport", msg |-> m]}
       \/ \E info \in VideoInfos :
            /\ response' = Ok(CleanData(info))
            /\ failures' = failures
    /\ pc' = "done"
    /\ UNCHANGED <<apiInstalled, op, url, urlParts, languages, browser, calls,
                   delivered, acc, video_id, consulted>>

\* POST /video-captions -> get_video_captions, up to ydl.extract_info
PostVideoCaptions(parts, langs) ==
    Enter("captions", parts, langs, None,
          YtDlpCall("extract_info", Unparse(parts), SubtitlesLangs(langs), None))

\* get_video_captions from the return of extract_info to the return of the
\* handler or to the call of YouTubeTranscriptApi.get_transcript
GetVideoCaptions_Primary ==
    /\ pc = "primary" /\ op = "captions"
    /\ \E out \in PrimaryOutcomes(calls[1].langs.v) :
         IF out.raises
         THEN /\ response' = UpstreamFailure("Error getting captions for video: ", out.msg)
              /\ failures' = failures \cup {[kind |-> "transport", msg |-> out.msg]}
              /\ pc' = "done"
              /\ UNCHANGED <<calls, delivered, acc, video_id, consulted>>
         ELSE LET captions_text == TracksCaptions(out.tracks)
                  vid == get_youtube_video_id(url)
              IN /\ delivered' = [delivered EXCEPT !.primary = Some(out.tracks)]
                 /\ acc' = captions_text
                 /\ failures' = failures \cup ParseFailures(out.tracks)
                 /\ IF captions_text # <<>>
                    THEN /\ response' = Ok(Strip(captions_text))
                         /\ pc' = "done"
                         /\ UNCHANGED <<calls, video_id, consulted>>
                    ELSE IF CaptionsNeedFallback(captions_text, apiInstalled)
                    THEN /\ consulted' = TRUE
                         /\ video_id' = vid
                         /\ IF ~Truthy(vid)
                            THEN \* HTTPException(400) raised inside the try
                                 \* block is caught by `except Exception`
                                 /\ response' = UpstreamFailure(
                                        "Error getting captions for video: ", InvalidUrlText)
                                 /\ pc' = "done"
                                 /\ calls' = calls
                            ELSE /\ calls' = Append(calls,
                                        TranscriptCall("get_transcript", vid.v,
                                                       CaptionsFallbackLangs(languages)))
                                 /\ pc' = "fallback"
                                 /\ response' = response
                    ELSE /\ response' = Ok(NoCaptionsFound)
                         /\ pc' = "done"
                         /\ UNCHANGED <<calls, video_id, consulted>>
    /\ UNCHANGED <<apiInstalled, op, url, urlParts, languages, browser>>

\* get_video_captions from the return of get_transcript
GetVideoCaptions_Fallback ==
    /\ pc = "fallback" /\ op = "captions"
    /\ \E out \in FallbackOutcomes :
         IF out.raises
         THEN /\ response' = UpstreamFailure("Error getting captions for video: ", out.msg)
              /\ failures' = failures \cup {[kind |-> "transport", msg |-> out.msg]}
              /\ delivered' = delivered
         ELSE /\ response' = Ok(FallbackCaptionsBody(out.captions))
              /\ failures' = failures
              /\ delivered' = [delivered EXCEPT !.fallback = Some(out.captions)]
    /\ pc' = "done"
    /\ UNCHANGED <<apiInstalled, op, url, urlParts, languages, browser, calls,
                   acc, video_id, consulted>>

\* POST /video-timestamps -> get_video_timestamps, up to ydl.extract_info
PostVideoTimestamps(parts, langs) ==
    Enter("timestamps", parts, langs, None,
          YtDlpCall("extract_info", Unparse(parts), SubtitlesLangs(langs), None))

\* get_video_timestamps from the return of extract_info to the return of the
\* handler or to the call of YouTubeTranscriptApi.get_transcript
GetVideoTimestamps_Primary ==
    /\ pc = "primary" /\ op = "timestamps"
    /\ \E out \in PrimaryOutcomes(calls[1].langs.v) :
         IF out.raises
         THEN /\ response' = UpstreamFailure("Error generating timestamps: ", out.msg)
              /\ failures' = failures \cup {[kind |-> "transport", msg |-> out.msg]}
              /\ pc' = "done"
              /\ UNCHANGED <<calls, delivered, acc, video_id, consulted>>
         ELSE LET timestamps == TracksTimestamps(out.tracks)
                  vid == get_youtube_video_id(url)
              IN /\ delivered' = [delivered EXCEPT !.primary = Some(out.tracks)]
                 /\ acc' = timestamps
                 /\ failures' = failures \cup ParseFailures(out.tracks)
                 /\ IF TimestampsNeedFallback(timestamps, apiInstalled)
                    THEN /\ consulted' = TRUE
                         /\ video_id' = vid
                         /\ IF ~Truthy(vid)
                            THEN /\ response' = UpstreamFailure(
                                        "Error generating timestamps: ", InvalidUrlText)
                                 /\ pc' = "done"
                                 /\ calls' = calls
                            ELSE /\ calls' = Append(calls,
                                        TranscriptCall("get_transcript", vid.v,
                                                       TimestampsFallbackLangs(languages)))
                                 /\ pc' = "fallback"
                                 /\ response' = response
                    ELSE /\ response' = Ok(timestamps)
                         /\ pc' = "done"
                         /\ UNCHANGED <<calls, video_id, consulted>>
    /\ UNCHANGED <<apiInstalled, op, url, urlParts, languages, browser>>

\* get_video_timestamps from the return of get_transcript
GetVideoTimestamps_Fallback ==
    /\ pc = "fallback" /\ op = "timestamps"
    /\ \E out \in FallbackOutcomes :
         IF out.raises
         THEN /\ response' = UpstreamFailure("Error generating timestamps: ", out.msg)
              /\ failures' = failures \cup {[kind |-> "transport", msg |-> out.msg]}
              /\ delivered' = delivered
         ELSE /\ response' = Ok(acc \o FallbackTimestamps(out.captions))
              /\ failures' = failures
              /\ delivered' = [delivered EXCEPT !.fallback = Some(out.captions)]
    /\ pc' = "done"
    /\ UNCHANGED <<apiInstalled, op, url, urlParts, languages, browser, calls,
                   acc, video_id, consulted>>

\* POST /available-subtitles -> get_available_subtitles, up to ydl.extract_info
PostAvailableSubtitles(parts) ==
    Enter("subtitles", parts, None, None,
          YtDlpCall("list_subtitles", Unparse(parts), None, None))

\* get_available_subtitles from the return of extract_info
GetAvailableSubtitles_Extract ==
    /\ pc = "primary" /\ op = "subtitles"
    /\ \/ \E m \in TransportMsgs :
            /\ response' = UpstreamFailure("Error getting available subtitles: ", m)
            /\ failures' = failures \cup {[kind |-> "transport", msg |-> m]}
       \/ \E info \in SubtitleInfos :
            /\ response' = Ok(AvailableSubs(info))
            /\ failures' = failures
    /\ delivered' = delivered
    /\ pc' = "done"
    /\ UNCHANGED <<apiInstalled, op, url, urlParts, languages, browser, calls,
                   acc, video_id, consulted>>

Next ==
    \/ \E parts \in RequestParts, br \in BrowserChoices : PostVideoData(parts, br)
    \/ GetVideoData_Extract
    \/ \E parts \in RequestParts, langs \in LanguageChoices : PostVideoCaptions(parts, langs)
    \/ GetVideoCaptions_Primary
    \/ GetVideoCaptions_Fallback
    \/ \E parts \in RequestParts, langs \in LanguageChoices : PostVideoTimestamps(parts, langs)
    \/ GetVideoTimestamps_Primary
    \/ GetVideoTimestamps_Fallback
    \/ \E parts \in RequestParts : PostAvailableSubtitles(parts)
    \/ GetAvailableSubtitles_Extract

Spec == Init /\ [][Next]_vars

(***************************************************************************)
(* Specification of the resolver alone: any URL of the grammar is resolved *)
(***************************************************************************)
ResolverInit ==
    /\ pc = "resolve"
    /\ urlParts \in AllParts
    /\ url = Unparse(urlParts)
    /\ apiInstalled = TRUE
    /\ op = "resolve"
    /\ languages = None
    /\ browser = None
    /\ calls = <<>>
    /\ delivered = NothingDelivered
    /\ acc = <<>>
    /\ video_id = None
    /\ consulted = FALSE
    /\ failures = {}
    /\ response = NoResponse

Resolve ==
    /\ pc = "resolve"
    /\ video_id' = get_youtube_video_id(url)
    /\ consulted' = TRUE
    /\ pc' = "resolved"
    /\ UNCHANGED <<apiInstalled, op, url, urlParts, languages, browser,
                   calls, delivered, acc, failures, response>>

ResolverNext == Resolve

ResolverSpec == ResolverInit /\ [][ResolverNext]_vars


(***************************************************************************)
(* Properties                                                              *)
(***************************************************************************)
HostOf(p) == IF p.auth = "none" THEN "" ELSE Lower(p.host)
YouTubeHosts == {"youtube.com", "www.youtube.com"}
UnrecognizedPaths == {"empty", "root", "id", "id_slash", "watch_slash", "watch_id",
                      "embed", "shorts_id"}
CaptionOps == {"captions", "timestamps"}
Contains(detail, m) == \E i \in 1..Len(detail) : detail[i] = m
CountCalls(provider) == Cardinality({i \in 1..Len(calls) : calls[i].provider = provider})
TransportFailed == \E f \in failures : f.kind = "transport"

\* C1: a URL of one of the four recognized shapes with a non-empty id resolves
\* to exactly that id; a URL with any other host, or with a youtube.com host
\* and any other path, resolves to None.
C1_ResolverShapes ==
    pc = "resolved" =>
        LET p == urlParts
            h == HostOf(p)
        IN /\ (h = "youtu.be" /\ p.path = "id") => video_id = Some(p.id)
           /\ (h \in YouTubeHosts /\ p.path = "watch" /\ p.query \in {"v", "v_t", "v_v"})
                 => video_id = Some(p.id)
           /\ (h \in YouTubeHosts /\ p.path \in {"embed_id", "v_id"})
                 => video_id = Some(p.id)
           /\ (h \notin YouTubeHosts \cup {"youtu.be"}) => video_id = None
           /\ (h \in YouTubeHosts /\ p.path \in UnrecognizedPaths) => video_id = None

C1_Witness ==
    /\ pc = "resolved"
    /\ url = <<"https", ":", "/", "/", "www.youtube.com", "/", "watch",
               "?", "v", "=", "a", "b", "&", "v", "=", "b", "a">>
    /\ video_id = Some(<<"a", "b">>)

\* C2: a request of any of the four operations whose url is empty ends with
\* status 400 and no provider call has been made for it.
C2_EmptyUrlRejected ==
    (op # "none" /\ op # "resolve" /\ url = <<>>) =>
        /\ pc = "done"
        /\ response.status = 400
        /\ calls = <<>>

C2_Witness ==
    /\ pc = "done" /\ op = "subtitles" /\ url = <<>>
    /\ response = NoUrlProvided /\ calls = <<>>

\* C3: in get_video_captions and get_video_timestamps, when the resolver is
\* consulted and returns None the request ends with status 400, not 500.
C3_NotFoundIsInvalidInput ==
    (pc = "done" /\ op \in CaptionOps /\ consulted /\ video_id = None)
        => response.status = 400

ZeroEventsDelivered ==
    /\ ~delivered.primary.isNone
    /\ \A i \in 1..Len(delivered.primary.v) : delivered.primary.v[i].events = <<>>
    /\ delivered.fallback.isNone \/ delivered.fallback.v = <<>>

\* C4: for a non-empty URL that the resolver maps to an identifier, when the
\* providers consulted by get_video_captions deliver zero caption events and
\* none raises, the handler returns "No captions found for video" with
\* status 200.
C4_NoCaptionsIsSoft ==
    (/\ pc = "done" /\ op = "captions"
     /\ url # <<>>
     /\ Truthy(get_youtube_video_id(url))
     /\ ~TransportFailed
     /\ ZeroEventsDelivered)
        => response = Ok(NoCaptionsFound)

C4_Witness ==
    /\ pc = "done" /\ op = "captions"
    /\ CountCalls("transcript_api") = 1
    /\ delivered.fallback = Some(<<>>)
    /\ response = Ok(NoCaptionsFound)

\* the line the claim prescribes for an event: "<m>:<ss> - <text>"
ClaimLine(startMs, text) ==
    LET secs == startMs \div 1000
    IN Digits(secs \div 60) \o <<":">>
       \o <<DigitTok((secs % 60) \div 10), DigitTok((secs % 60) % 10)>>
       \o <<" ", "-", " ">> \o text

RECURSIVE ClaimLines(_)
ClaimLines(events) ==
    IF events = <<>> THEN <<>>
    ELSE (IF Strip(events[1].text) # <<>>
          THEN <<ClaimLine(events[1].start, events[1].text)>> ELSE <<>>)
         \o ClaimLines(Tail(events))

\* the caption events (start, text) of json3 events: those with a start time
\* and segments, the text being the segments joined by spaces
RECURSIVE Json3CaptionEvents(_)
Json3CaptionEvents(events) ==
    IF events = <<>> THEN <<>>
    ELSE (IF events[1].hasStart /\ events[1].hasSegs
          THEN <<[start |-> events[1].tStartMs, text |-> Strip(SegsText(events[1].segs))]>>
          ELSE <<>>)
         \o Json3CaptionEvents(Tail(events))

RECURSIVE TracksCaptionEvents(_)
TracksCaptionEvents(tracks) ==
    IF tracks = <<>> THEN <<>>
    ELSE Json3CaptionEvents(tracks[1].events) \o TracksCaptionEvents(Tail(tracks))

\* the primary half of C5 alone
C5_PrimaryLines ==
    (pc = "done" /\ op = "timestamps" /\ response.status = 200
     /\ delivered.fallback.isNone)
        => response.body = ClaimLines(TracksCaptionEvents(delivered.primary.v))

\* C5: the list returned by get_video_timestamps is, in the order delivered,
\* one line "<m>:<ss> - <text>" per event whose trimmed text is non-empty and
\* no line for the others, whether the track came from the primary or from
\* the fallback provider; no events give the empty list with status 200.
C5_TimestampLines ==
    (pc = "done" /\ op = "timestamps" /\ response.status = 200)
        => response.body =
             IF delivered.fallback.isNone
             THEN ClaimLines(TracksCaptionEvents(delivered.primary.v))
             ELSE ClaimLines(delivered.fallback.v)

C7_BothKeys ==
    (pc = "done" /\ op = "subtitles" /\ response.status = 200)
        => DOMAIN response.body = {"manual", "automatic"}

\* C8: a youtu.be URL whose path is empty once its leading "/" is stripped
\* resolves to None.
C8_EmptyShortPath ==
    (pc = "resolved" /\ HostOf(urlParts) = "youtu.be"
     /\ urlParts.path \in {"empty", "root"})
        => video_id = None

\* C9: with languages omitted every provider call of get_video_timestamps asks
\* for ["en"] and every provider call of get_video_captions leaves the
\* languages to the provider; with languages given every call of both asks
\* for exactly that list.
C9_Languages ==
    op \in CaptionOps =>
        \A i \in 1..Len(calls) :
            /\ languages.isNone =>
                  calls[i].langs = IF op = "timestamps" THEN Some(<<"en">>) ELSE None
            /\ ~languages.isNone => calls[i].langs = Some(languages.v)

\* C9 as amended: with languages omitted or empty, every provider call of
\* get_video_timestamps and the primary call of get_video_captions ask for
\* ["en"], and the fallback call of get_video_captions leaves the languages
\* to the provider; with a non-empty list given every call of both asks for
\* exactly that list, in order.
C9_LanguagesAmended ==
    op \in CaptionOps =>
        \A i \in 1..Len(calls) :
            /\ ~Truthy(languages) =>
                  calls[i].langs =
                     IF op = "captions" /\ calls[i].provider = "transcript_api"
                     THEN None ELSE Some(<<"en">>)
            /\ Truthy(languages) => calls[i].langs = Some(languages.v)

C9_Witness ==
    /\ op = "captions" /\ languages = None /\ Len(calls) = 2
    /\ calls[1].langs = Some(<<"en">>)
    /\ calls[2].langs = None

PrimaryYieldedNothing == (~delivered.primary.isNone) /\ acc = <<>>

C10_Order ==
    /\ CountCalls("yt_dlp") <= 1
    /\ CountCalls("transcript_api") <= 1
    /\ \A i, j \in 1..Len(calls) :
          (calls[i].provider = "yt_dlp" /\ calls[j].provider = "transcript_api") => i < j
    /\ CountCalls("transcript_api") = 1 => PrimaryYieldedNothing

\* C10: within one captions or timestamps request the primary provider is
\* called exactly once and before the fallback, the fallback at most once and
\* only if the primary yielded no caption text, and when the primary yields
\* nothing and the fallback is configured the fallback is called before the
\* request ends; no provider is called twice.
C10_ProviderCalls ==
    op \in CaptionOps =>
        /\ C10_Order
        /\ pc = "done" => CountCalls("yt_dlp") = 1
        /\ (pc = "done" /\ PrimaryYieldedNothing /\ apiInstalled)
              => CountCalls("transcript_api") = 1

\* C10 as amended: the same for a request with a non-empty url, the fallback
\* being called when the primary yields nothing, the fallback is configured
\* and the resolver maps the url to a non-empty identifier.
C10_ProviderCallsAmended ==
    op \in CaptionOps =>
        /\ C10_Order
        /\ (pc = "done" /\ url # <<>>) => CountCalls("yt_dlp") = 1
        /\ (pc = "done" /\ PrimaryYieldedNothing /\ apiInstalled
            /\ Truthy(get_youtube_video_id(url)))
              => CountCalls("transcript_api") = 1

C10_Witness ==
    /\ pc = "done" /\ op = "timestamps" /\ response.status = 200
    /\ Len(calls) = 2
    /\ calls[1].provider = "yt_dlp" /\ calls[2].provider = "transcript_api"
    /\ delivered.fallback # None

====
